---- MODULE Spec2Model ----
(***************************************************************************)
(* The Board of evolvim: the simulation clock, the population life cycle   *)
(* of one tick (Board::update and the phases it calls), the spatial index  *)
(* soft_bodies_in_positions, the selected creature and the season label.   *)
(*                                                                         *)
(* Time (f64 in the code) is kept in fixed point: one year is YearUnit     *)
(* units.  Positions (BoardPreciseCoordinate, f64) are kept in units of    *)
(* 1/PosScale of a tile.  A creature handle (HLSoftBody, a reference-      *)
(* counted pointer compared by identity) is a positive integer.            *)
(***************************************************************************)
EXTENDS Integers, Sequences, FiniteSets, TLC

\* ------------------------------------------------------------------ bounds
MaxMinimum == 2
MaxPop == 3
MaxYear == 60
YearUnit == 100
PosScale == 2
MaxProbeYear == 250
MaxGenomes == 2
MaxInnovations == 3
MaxNodeIds == 2
MaxEarlier == 2
MaxSbipCalls == 3
FoodScale == 2
MaxFood == 8
ExpScale == 2

\* The time steps a driver passes to update (strictly positive, in 1/YearUnit).
TimeSteps == {30, 45}

\* The board sizes new_random is called with.
BoardSizes == {<<2, 1>>}

\* The energies a creature can have: below SAFE_SIZE it fails the viability test.
Energies == {0, 1, 2}

\* ----------------------------------------------------------------- helpers
Range(s) == {s[k] : k \in 1..Len(s)}

\* Option<T>: None is the empty sequence, Some(x) a one-element sequence.
None == <<>>

Some(x) == <<x>>

\* Vec::remove(i) with the 1-based index i.
VecRemove(s, i) == SubSeq(s, 1, i - 1) \o SubSeq(s, i + 1, Len(s))

\* The number of entries of the call log s that equal e.
Count(s, e) == Cardinality({k \in 1..Len(s) : s[k] = e})

\* ------------------------------------------------------------- coordinates
\* From<BoardPreciseCoordinate> for BoardCoordinate: floor of both components.
BoardCoordinateFrom(p) == <<p[1] \div PosScale, p[2] \div PosScale>>

\* The tiles of a board of the given size.
Cells(w, h) == (0..(w - 1)) \X (0..(h - 1))

\* The precise positions creatures are placed at: the centre of each tile.
PrecisePositions(w, h) ==
    {<<c[1] * PosScale + PosScale \div 2, c[2] * PosScale + PosScale \div 2>> :
        c \in Cells(w, h)}

\* ------------------------------------------------------------------ climate
\* Climate::get_growth_rate: continuous, periodic with period one year; lowest
\* at the turn of the year and highest in mid-year.
get_growth_rate(t) ==
    LET f == t % YearUnit
    IN  IF 2 * f <= YearUnit THEN 2 * f - YearUnit \div 2
        ELSE 2 * (YearUnit - f) - YearUnit \div 2

\* ------------------------------------------------------------------- state
VARIABLES
    board_width,              \* Board.board_width
    board_height,             \* Board.board_height
    creature_minimum,         \* Board.creature_minimum
    soft_bodies_in_positions, \* Board.soft_bodies_in_positions: tile -> handles
    creatures,                \* Board.creatures: Vec of handles
    creature_id_up_to,        \* Board.creature_id_up_to
    spawned_ever,             \* the number of creatures new_random has made for this board
    year,                     \* Board.year
    climate_temperature,      \* Board.climate, the temperature it holds
    terrain_up_to_date,       \* Board.terrain: its last update_all was at the current year
    selected_creature,        \* Board.selected_creature: Option of a handle
    body,                     \* the SoftBody behind each live handle
    next_handle,              \* the next handle to allocate
    pc,                       \* 0: no call running; k: update is about to run its k-th phase
    time_step,                \* the argument of the running update
    panic,                    \* "" or the message the process aborted with
    season,                   \* the value the last get_season returned
    elapsed,                  \* the sum of the time steps passed to update
    trace                     \* what the running update has done so far

\* The process-wide state of neat::genome and the genomes made so far.
VARIABLES
    INNOVATION_NUMBER,        \* static mut INNOVATION_NUMBER
    NODE_NUMBER,              \* static mut NODE_NUMBER
    genomes,                  \* the Genome values alive, in order of construction
    founders,                 \* every value new_fully_linked has returned, in order
    innovation_numbers,       \* every value get_innovation_number has returned, in order
    node_ids,                 \* every value get_next_node_id has returned, in order
    task                      \* the threads inside a counter function: their position and registers

\* One Tile of the terrain.
VARIABLES
    tile,                     \* the Tile: Water, or Land with its LandTile fields
    tile_call                 \* the last call made on the tile: <<method, arguments>>

tile_vars == <<tile, tile_call>>

board_fields == <<board_width, board_height, creature_minimum, soft_bodies_in_positions,
                  creatures, creature_id_up_to, spawned_ever, year, climate_temperature,
                  terrain_up_to_date, selected_creature, body, next_handle, pc,
                  time_step, season, elapsed, trace>>

board_vars == <<board_fields, panic>>

genome_vars == <<INNOVATION_NUMBER, NODE_NUMBER, genomes, founders, innovation_numbers,
                 node_ids, task>>

vars == <<board_vars, genome_vars, tile_vars>>


\* The board as the operators below pass it along: the fields an operation of
\* one tick reads and writes, and the log of the per-creature calls it makes.
World ==
    [creatures |-> creatures, body |-> body, sbip |-> soft_bodies_in_positions,
     selected |-> selected_creature, creature_id_up_to |-> creature_id_up_to,
     next_handle |-> next_handle, calls |-> trace.calls, babies |-> <<>>]

\* ---------------------------------------------------------------- SoftBody
\* The death threshold of should_die.
SAFE_SIZE == 1

\* The energies a creature is created with: it passes the viability test, and
\* update_creatures may change its energy to any of Energies afterwards.
LiveEnergies == {e \in Energies : e = SAFE_SIZE}

\* SoftBody::should_die: the viability test fails.
should_die(b) == b.energy < SAFE_SIZE

\* SoftBody::new_random(board_size, time), with the random draws given.
new_random_body(pos, energy, time) ==
    [birth_time |-> time, energy |-> energy, position |-> pos, sbip_cell |-> None]

\* HLSoftBody::set_sbip: recompute the tile of the creature, take its handle out
\* of the tile recorded before when that is another one, put it into the new
\* tile and record the new tile.
set_sbip(w, h) ==
    LET b == w.body[h]
        cell == BoardCoordinateFrom(b.position)
        moved == b.sbip_cell # None /\ b.sbip_cell[1] # cell
        indexed == [c \in DOMAIN w.sbip |->
                       IF c = cell THEN w.sbip[c] \cup {h}
                       ELSE IF moved /\ c = b.sbip_cell[1] THEN w.sbip[c] \ {h}
                       ELSE w.sbip[c]]
    IN  [w EXCEPT !.sbip = indexed,
                  !.body[h].sbip_cell = Some(cell),
                  !.calls = Append(@, <<"set_sbip", h>>)]

\* HLSoftBody::return_to_earth: the biomass goes to the tile and the handle
\* leaves the spatial index.
return_to_earth(w, h) ==
    [w EXCEPT !.sbip = [c \in DOMAIN w.sbip |-> w.sbip[c] \ {h}],
              !.calls = Append(@, <<"return_to_earth", h>>)]

\* HLSoftBody::apply_motions: integrate the position (any position of the board,
\* here pos) and re-index through set_sbip.
apply_motions(w, h, pos) ==
    set_sbip([w EXCEPT !.body[h].position = pos,
                       !.calls = Append(@, <<"apply_motions", h>>)], h)

\* HLSoftBody::try_reproduce returning Some(baby): the baby is born at `time`
\* next to its parent, gets a fresh handle and is placed in the spatial index.
\* The baby is collected in w.babies, as creatures_reproduce does.
try_reproduce_some(w, parent, energy, time) ==
    LET h == w.next_handle
        born == [w EXCEPT !.body = [x \in DOMAIN w.body \cup {h} |->
                                       IF x = h
                                       THEN new_random_body(w.body[parent].position,
                                                            energy, time)
                                       ELSE w.body[x]],
                          !.next_handle = h + 1,
                          !.babies = Append(@, h)]
    IN  set_sbip(born, h)

\* ------------------------------------------------------- SelectedCreature
\* unselect_if_dead without its comparison: any death clears the selection.
unselect_whoever_died(sel, creature) == None

\* SelectedCreature::unselect_if_dead(creature): the new value of the selection.
unselect_if_dead(sel, creature) ==
    IF sel # None /\ sel[1] # creature THEN sel ELSE None

\* ------------------------------------------------ maintain_creature_minimum
\* The loop condition with the bound off by one: the loop stops one creature short.
below_minimum_off_by_one(n, minimum) == n + 1 < minimum

\* The loop condition of maintain_creature_minimum.
below_minimum(n, minimum) == n < minimum

\* The number of new_random calls in the call log after its first n entries.
NewRandomCalls(calls, n) ==
    Cardinality({k \in (n + 1)..Len(calls) : calls[k][1] = "new_random"})

\* The loop body of maintain_creature_minimum without `creature_id_up_to += 1`.
spawn_uncounted(w, pos, energy, time) ==
    LET h == w.next_handle
        made == [w EXCEPT !.body = [x \in DOMAIN w.body \cup {h} |->
                                       IF x = h THEN new_random_body(pos, energy, time)
                                       ELSE w.body[x]],
                          !.next_handle = h + 1,
                          !.calls = Append(@, <<"new_random", h>>)]
        indexed == set_sbip(set_sbip(made, h), h)
    IN  [indexed EXCEPT !.creatures = Append(@, h)]

\* The loop body of maintain_creature_minimum putting the new creature in
\* front of the population instead of behind it.
spawn_in_front(w, pos, energy, time) ==
    LET h == w.next_handle
        made == [w EXCEPT !.body = [x \in DOMAIN w.body \cup {h} |->
                                       IF x = h THEN new_random_body(pos, energy, time)
                                       ELSE w.body[x]],
                          !.next_handle = h + 1,
                          !.calls = Append(@, <<"new_random", h>>)]
        indexed == set_sbip(set_sbip(made, h), h)
    IN  [indexed EXCEPT !.creatures = <<h>> \o @,
                        !.creature_id_up_to = @ + 1]

\* The loop body of maintain_creature_minimum without the two set_sbip calls.
spawn_unindexed(w, pos, energy, time) ==
    LET h == w.next_handle
        made == [w EXCEPT !.body = [x \in DOMAIN w.body \cup {h} |->
                                       IF x = h THEN new_random_body(pos, energy, time)
                                       ELSE w.body[x]],
                          !.next_handle = h + 1,
                          !.calls = Append(@, <<"new_random", h>>)]
    IN  [made EXCEPT !.creatures = Append(@, h),
                     !.creature_id_up_to = @ + 1]

\* One iteration of the loop of maintain_creature_minimum: a random creature is
\* made, indexed twice, pushed, and creature_id_up_to is advanced.
spawn(w, pos, energy, time) ==
    LET h == w.next_handle
        made == [w EXCEPT !.body = [x \in DOMAIN w.body \cup {h} |->
                                       IF x = h THEN new_random_body(pos, energy, time)
                                       ELSE w.body[x]],
                          !.next_handle = h + 1,
                          !.calls = Append(@, <<"new_random", h>>)]
        indexed == set_sbip(set_sbip(made, h), h)
    IN  [indexed EXCEPT !.creatures = Append(@, h),
                        !.creature_id_up_to = @ + 1]

\* Board::maintain_creature_minimum: every board the loop can end with, over the
\* random positions and energies of the creatures it makes.
RECURSIVE maintain_creature_minimum(_, _, _, _)
maintain_creature_minimum(w, minimum, size, time) ==
    IF below_minimum(Len(w.creatures), minimum)
    THEN UNION {maintain_creature_minimum(spawn(w, pos, e, time), minimum, size, time) :
                    pos \in PrecisePositions(size[1], size[2]), e \in LiveEnergies}
    ELSE {w}

\* ------------------------------------------------------------ process start
\* The number of Sensor and of Output nodes of a founder genome.
AMOUNT_INPUT == 3

AMOUNT_OUTPUT == 2

\* `static mut INNOVATION_NUMBER` started one short, so that the first value
\* handed out is the last one of the founders.
INNOVATION_NUMBER_one_short == AMOUNT_INPUT * AMOUNT_OUTPUT - 1

\* The initial values of `static mut INNOVATION_NUMBER` and `static mut
\* NODE_NUMBER`.
INNOVATION_NUMBER_start == AMOUNT_INPUT * AMOUNT_OUTPUT

NODE_NUMBER_start == AMOUNT_INPUT + AMOUNT_OUTPUT

\* The statics of neat::genome as the process starts, with no genome made and
\* no thread inside a counter function.
GenomeStart ==
    /\ INNOVATION_NUMBER = INNOVATION_NUMBER_start
    /\ NODE_NUMBER = NODE_NUMBER_start
    /\ genomes = <<>>
    /\ founders = <<>>
    /\ innovation_numbers = <<>>
    /\ node_ids = <<>>
    /\ task = <<>>

\* Tile::Water.
Water == [variant |-> "Water"]

\* Tile::Land(t).
Land(t) ==
    [variant |-> "Land", fertility |-> t.fertility, food_level |-> t.food_level,
     food_type |-> t.food_type, last_update_time |-> t.last_update_time]

\* ------------------------------------------------------------- new_random
\* The trace of an update that has not done anything yet.
EmptyTrace ==
    [log |-> <<>>, calls |-> <<>>, sel_before |-> None, before_cull |-> <<>>,
     doomed |-> {}, survivors |-> <<>>, babies |-> <<>>, spawned |-> <<>>,
     refreshed |-> FALSE]

\* The board of new_random before it calls maintain_creature_minimum.
EmptyWorld(size) ==
    [creatures |-> <<>>, body |-> <<>>,
     sbip |-> [c \in Cells(size[1], size[2]) |-> {}],
     selected |-> None, creature_id_up_to |-> 0, next_handle |-> 1,
     calls |-> <<>>, babies |-> <<>>]

\* Board::new_random, over the board sizes and creature minimums it is given.
Init ==
    \E size \in BoardSizes, minimum \in 0..MaxMinimum :
      \E w \in maintain_creature_minimum(EmptyWorld(size), minimum, size, 0) :
        /\ board_width = size[1]
        /\ board_height = size[2]
        /\ creature_minimum = minimum
        /\ soft_bodies_in_positions = w.sbip
        /\ creatures = w.creatures
        /\ creature_id_up_to = w.creature_id_up_to
        /\ spawned_ever = NewRandomCalls(w.calls, 0)
        /\ year = 0
        /\ climate_temperature = get_growth_rate(0)
        /\ terrain_up_to_date = TRUE
        /\ selected_creature = w.selected
        /\ body = w.body
        /\ next_handle = w.next_handle
        /\ pc = 0
        /\ time_step = 0
        /\ panic = ""
        /\ season = ""
        /\ elapsed = 0
        /\ trace = EmptyTrace
        /\ GenomeStart
        /\ tile = Water
        /\ tile_call = <<>>


\* ------------------------------------------------------------------ update
\* update with reproduction moved before the removal of the dead.
UpdatePhases_reproduce_first ==
    <<"clock", "update_creatures", "creatures_reproduce", "remove_dead_creatures",
      "maintain_creature_minimum", "move_creatures">>

\* update with the refill moved after the motion.
UpdatePhases_refill_last ==
    <<"clock", "update_creatures", "remove_dead_creatures", "creatures_reproduce",
      "move_creatures", "maintain_creature_minimum">>

\* The body of Board::update: its phases in the order of the calls.
UpdatePhases ==
    <<"clock", "update_creatures", "remove_dead_creatures", "creatures_reproduce",
      "maintain_creature_minimum", "move_creatures">>

\* update is about to run the phase `name`.
AtPhase(name) ==
    /\ panic = ""
    /\ pc \in 1..Len(UpdatePhases)
    /\ UpdatePhases[pc] = name

\* The trace after the phase `name` has run and logged `calls`.
Logged(name, calls) ==
    [trace EXCEPT !.log = Append(@, name), !.calls = calls]

\* A driver calls update(ts): nothing has run yet.
UpdateCall(ts) ==
    /\ pc = 0
    /\ panic = ""
    /\ year + ts <= MaxYear
    /\ pc' = 1
    /\ time_step' = ts
    /\ elapsed' = elapsed + ts
    /\ trace' = [EmptyTrace EXCEPT !.sel_before = selected_creature]
    /\ UNCHANGED <<genome_vars, tile_vars>>
    /\ UNCHANGED <<board_width, board_height, creature_minimum,
                   soft_bodies_in_positions, creatures, creature_id_up_to, spawned_ever, year,
                   climate_temperature, terrain_up_to_date, selected_creature, body,
                   next_handle, panic, season>>

\* The clock set to the time step instead of advanced by it.
advance_clock_lost(y, ts) == ts

\* self.year += time_step
advance_clock(y, ts) == y + ts

\* `< 0.0` written as `<= 0.0`: a flat side counts as a flip.
trend_flipped_or_flat(into_frame, out_of_frame) == into_frame * out_of_frame <= 0

\* temp_change_into_frame * temp_change_out_of_frame < 0.0
trend_flipped(into_frame, out_of_frame) == into_frame * out_of_frame < 0

\* The head of update: the clock and the climate advance, and the terrain is
\* refreshed when the temperature change flipped direction.
ClockPhase ==
    /\ AtPhase("clock")
    /\ LET y == advance_clock(year, time_step)
           temperature == get_growth_rate(y)
           temp_change_into_frame == temperature - get_growth_rate(y - time_step)
           temp_change_out_of_frame == get_growth_rate(y + time_step) - temperature
           flipped == trend_flipped(temp_change_into_frame, temp_change_out_of_frame)
       IN  /\ year' = y
           /\ climate_temperature' = temperature
           /\ terrain_up_to_date' = (flipped \/ (terrain_up_to_date /\ y = year))
           /\ trace' = [Logged("clock", trace.calls) EXCEPT !.refreshed = flipped]
    /\ pc' = pc + 1
    /\ UNCHANGED <<genome_vars, tile_vars>>
    /\ UNCHANGED <<board_width, board_height, creature_minimum,
                   soft_bodies_in_positions, creatures, creature_id_up_to, spawned_ever,
                   selected_creature, body, next_handle, time_step, panic, season,
                   elapsed>>

\* The calls of the first loop of update_creatures, creature by creature.
first_loop_calls(cs) ==
    [k \in 1..(3 * Len(cs)) |->
        <<(<<"collide", "record_energy", "metabolize">>)[((k - 1) % 3) + 1],
          cs[((k - 1) \div 3) + 1]>>]

\* The calls of a loop that applies the one operation op to every creature.
each_calls(op, cs) == [k \in 1..Len(cs) |-> <<op, cs[k]>>]

\* The calls of update_creatures: the first loop, update_brains, the outputs.
update_creatures_calls(cs) ==
    first_loop_calls(cs) \o each_calls("run_with", cs) \o each_calls("use_output", cs)

\* Board::update_creatures: colliding, metabolising and acting leave every
\* creature with some energy.
UpdateCreatures ==
    /\ AtPhase("update_creatures")
    /\ \E e \in [Range(creatures) -> Energies] :
          body' = [h \in DOMAIN body |->
                      IF h \in Range(creatures)
                      THEN [body[h] EXCEPT !.energy = e[h]] ELSE body[h]]
    /\ trace' = Logged("update_creatures",
                       trace.calls \o update_creatures_calls(creatures))
    /\ pc' = pc + 1
    /\ UNCHANGED <<genome_vars, tile_vars>>
    /\ UNCHANGED <<board_width, board_height, creature_minimum,
                   soft_bodies_in_positions, creatures, creature_id_up_to, spawned_ever, year,
                   climate_temperature, terrain_up_to_date, selected_creature,
                   next_handle, time_step, panic, season, elapsed>>

\* The branch without return_to_earth: the dead creature stays in the index.
cull_without_return(w, i) ==
    LET h == w.creatures[i]
    IN  [w EXCEPT !.selected = unselect_if_dead(@, h),
                  !.creatures = VecRemove(@, i)]

\* The branch of remove_dead_creatures for a creature that should die: it
\* returns to earth, is unselected and is removed from the population.
cull(w, i) ==
    LET h == w.creatures[i]
        returned == return_to_earth(w, h)
    IN  [returned EXCEPT !.selected = unselect_if_dead(@, h),
                         !.creatures = VecRemove(@, i)]

\* The while loop advancing i after a removal too: the creature that slid into
\* the freed slot is never examined.
RECURSIVE remove_dead_loop_skipping(_, _)
remove_dead_loop_skipping(w, i) ==
    IF i <= Len(w.creatures)
    THEN IF should_die(w.body[w.creatures[i]])
         THEN remove_dead_loop_skipping(cull(w, i), i + 1)
         ELSE remove_dead_loop_skipping(w, i + 1)
    ELSE w

\* The while loop of remove_dead_creatures from index i (1-based) on.
RECURSIVE remove_dead_loop(_, _)
remove_dead_loop(w, i) ==
    IF i <= Len(w.creatures)
    THEN IF should_die(w.body[w.creatures[i]])
         THEN remove_dead_loop(cull(w, i), i)
         ELSE remove_dead_loop(w, i + 1)
    ELSE w

\* Board::remove_dead_creatures.
RemoveDeadCreatures ==
    /\ AtPhase("remove_dead_creatures")
    /\ LET w == remove_dead_loop(World, 1)
       IN  /\ creatures' = w.creatures
           /\ soft_bodies_in_positions' = w.sbip
           /\ selected_creature' = w.selected
           /\ body' = [h \in Range(w.creatures) |-> w.body[h]]
           /\ trace' = [Logged("remove_dead_creatures", w.calls) EXCEPT
                           !.before_cull = creatures,
                           !.doomed = {h \in Range(creatures) : should_die(body[h])},
                           !.survivors = w.creatures]
    /\ pc' = pc + 1
    /\ UNCHANGED <<genome_vars, tile_vars>>
    /\ UNCHANGED <<board_width, board_height, creature_minimum, creature_id_up_to, spawned_ever,
                   year, climate_temperature, terrain_up_to_date, next_handle, time_step,
                   panic, season, elapsed>>

\* The loop of creatures_reproduce from index i on and the push of the babies
\* after it: every board it can end with, over the outcomes of try_reproduce.
RECURSIVE creatures_reproduce(_, _, _)
creatures_reproduce(w, i, time) ==
    IF i <= Len(w.creatures)
    THEN LET c == w.creatures[i]
             asked == [w EXCEPT !.calls = Append(@, <<"try_reproduce", c>>)]
         IN  creatures_reproduce(asked, i + 1, time)
             \cup (IF Len(w.creatures) + Len(w.babies) < MaxPop
                   THEN UNION {creatures_reproduce(
                                   try_reproduce_some(asked, c, e, time), i + 1, time) :
                               e \in LiveEnergies}
                   ELSE {})
    ELSE {[w EXCEPT !.creatures = @ \o w.babies]}

\* Board::creatures_reproduce.
CreaturesReproduce ==
    /\ AtPhase("creatures_reproduce")
    /\ \E w \in creatures_reproduce(World, 1, year) :
          /\ creatures' = w.creatures
          /\ soft_bodies_in_positions' = w.sbip
          /\ body' = w.body
          /\ next_handle' = w.next_handle
          /\ trace' = [Logged("creatures_reproduce", w.calls) EXCEPT
                          !.babies = w.babies]
    /\ pc' = pc + 1
    /\ UNCHANGED <<genome_vars, tile_vars>>
    /\ UNCHANGED <<board_width, board_height, creature_minimum, creature_id_up_to, spawned_ever,
                   year, climate_temperature, terrain_up_to_date, selected_creature,
                   time_step, panic, season, elapsed>>

\* Board::maintain_creature_minimum as the phase of update.
MaintainCreatureMinimum ==
    /\ AtPhase("maintain_creature_minimum")
    /\ \E w \in maintain_creature_minimum(World, creature_minimum,
                                          <<board_width, board_height>>, year) :
          /\ creatures' = w.creatures
          /\ soft_bodies_in_positions' = w.sbip
          /\ body' = w.body
          /\ next_handle' = w.next_handle
          /\ creature_id_up_to' = w.creature_id_up_to
          /\ spawned_ever' = spawned_ever + NewRandomCalls(w.calls, Len(trace.calls))
          /\ trace' = [Logged("maintain_creature_minimum", w.calls) EXCEPT
                          !.spawned = SubSeq(w.creatures, Len(creatures) + 1,
                                             Len(w.creatures))]
    /\ pc' = pc + 1
    /\ UNCHANGED <<genome_vars, tile_vars>>
    /\ UNCHANGED <<board_width, board_height, creature_minimum, year,
                   climate_temperature, terrain_up_to_date, selected_creature, time_step,
                   panic, season, elapsed>>

\* The loop of move_creatures from index i on: every board it can end with,
\* over the positions the creatures move to.
RECURSIVE move_creatures(_, _, _)
move_creatures(w, i, size) ==
    IF i <= Len(w.creatures)
    THEN UNION {move_creatures(apply_motions(w, w.creatures[i], pos), i + 1, size) :
                    pos \in PrecisePositions(size[1], size[2])}
    ELSE {w}

\* Board::move_creatures.
MoveCreatures ==
    /\ AtPhase("move_creatures")
    /\ \E w \in move_creatures(World, 1, <<board_width, board_height>>) :
          /\ soft_bodies_in_positions' = w.sbip
          /\ body' = w.body
          /\ trace' = Logged("move_creatures", w.calls)
    /\ pc' = pc + 1
    /\ UNCHANGED <<genome_vars, tile_vars>>
    /\ UNCHANGED <<board_width, board_height, creature_minimum, creatures,
                   creature_id_up_to, spawned_ever, year, climate_temperature, terrain_up_to_date,
                   selected_creature, next_handle, time_step, panic, season,
                   elapsed>>

\* update returns to the driver.
UpdateReturn ==
    /\ panic = ""
    /\ pc = Len(UpdatePhases) + 1
    /\ pc' = 0
    /\ time_step' = 0
    /\ trace' = EmptyTrace
    /\ UNCHANGED <<genome_vars, tile_vars>>
    /\ UNCHANGED <<board_width, board_height, creature_minimum,
                   soft_bodies_in_positions, creatures, creature_id_up_to, spawned_ever, year,
                   climate_temperature, terrain_up_to_date, selected_creature, body,
                   next_handle, panic, season, elapsed>>


\* --------------------------------------------------------------- selection
\* The comparison of select_oldest made non-strict: a later creature wins a tie.
older_or_same(c, c_old) == c.birth_time <= c_old.birth_time

\* c.borrow().get_birth_time() < c_old.borrow().get_birth_time()
older(c, c_old) == c.birth_time < c_old.birth_time

\* c.borrow().get_energy() > c_old.borrow().get_energy()
bigger(c, c_old) == c.energy > c_old.energy

\* The fold of select_oldest over the creatures from index i on.
RECURSIVE fold_oldest(_, _, _)
fold_oldest(cs, i, c_old) ==
    IF i <= Len(cs)
    THEN fold_oldest(cs, i + 1, IF older(body[cs[i]], body[c_old]) THEN cs[i] ELSE c_old)
    ELSE c_old

\* The fold of select_biggest over the creatures from index i on.
RECURSIVE fold_biggest(_, _, _)
fold_biggest(cs, i, c_old) ==
    IF i <= Len(cs)
    THEN fold_biggest(cs, i + 1, IF bigger(body[cs[i]], body[c_old]) THEN cs[i] ELSE c_old)
    ELSE c_old

\* Board::select_oldest: the fold starts from &self.creatures[0], which aborts
\* the process when the population is empty.
SelectOldest ==
    /\ pc = 0
    /\ panic = ""
    /\ IF creatures = <<>>
       THEN /\ panic' = "select_oldest: index out of bounds"
            /\ UNCHANGED selected_creature
       ELSE /\ selected_creature' = Some(fold_oldest(creatures, 1, creatures[1]))
            /\ UNCHANGED panic
    /\ UNCHANGED <<genome_vars, tile_vars>>
    /\ UNCHANGED <<board_width, board_height, creature_minimum,
                   soft_bodies_in_positions, creatures, creature_id_up_to, spawned_ever, year,
                   climate_temperature, terrain_up_to_date, body, next_handle, pc,
                   time_step, season, elapsed, trace>>

\* Board::select_biggest: as select_oldest, by energy.
SelectBiggest ==
    /\ pc = 0
    /\ panic = ""
    /\ IF creatures = <<>>
       THEN /\ panic' = "select_biggest: index out of bounds"
            /\ UNCHANGED selected_creature
       ELSE /\ selected_creature' = Some(fold_biggest(creatures, 1, creatures[1]))
            /\ UNCHANGED panic
    /\ UNCHANGED <<genome_vars, tile_vars>>
    /\ UNCHANGED <<board_width, board_height, creature_minimum,
                   soft_bodies_in_positions, creatures, creature_id_up_to, spawned_ever, year,
                   climate_temperature, terrain_up_to_date, body, next_handle, pc,
                   time_step, season, elapsed, trace>>

\* Board::prepare_for_drawing: the terrain is brought up to the current year.
PrepareForDrawing ==
    /\ pc = 0
    /\ panic = ""
    /\ terrain_up_to_date' = TRUE
    /\ UNCHANGED <<genome_vars, tile_vars>>
    /\ UNCHANGED <<board_width, board_height, creature_minimum,
                   soft_bodies_in_positions, creatures, creature_id_up_to, spawned_ever, year,
                   climate_temperature, selected_creature, body, next_handle, pc,
                   time_step, panic, season, elapsed, trace>>

\* ------------------------------------------------------------------ season
SEASONS == <<"Winter", "Spring", "Summer", "Autumn">>

\* The index taken from the year itself, not from its fractional part.
season_index_of_whole_year(y) == (y * 4) \div YearUnit

\* ((self.year % 1.0) * 4.0).floor() as usize
season_index(y) == ((y % YearUnit) * 4) \div YearUnit

\* Board::get_season: SEASONS[season], which aborts the process when the index
\* is out of range.
GetSeason ==
    /\ pc = 0
    /\ panic = ""
    /\ LET i == season_index(year)
       IN  IF i \in 0..(Len(SEASONS) - 1)
           THEN season' = SEASONS[i + 1] /\ UNCHANGED panic
           ELSE panic' = "get_season: index out of bounds" /\ UNCHANGED season
    /\ UNCHANGED <<genome_vars, tile_vars>>
    /\ UNCHANGED <<board_width, board_height, creature_minimum,
                   soft_bodies_in_positions, creatures, creature_id_up_to, spawned_ever, year,
                   climate_temperature, terrain_up_to_date, selected_creature, body,
                   next_handle, pc, time_step, elapsed, trace>>

\* ----------------------------------------------------------- specifications
Next ==
    \/ \E ts \in TimeSteps : UpdateCall(ts)
    \/ ClockPhase
    \/ UpdateCreatures
    \/ RemoveDeadCreatures
    \/ CreaturesReproduce
    \/ MaintainCreatureMinimum
    \/ MoveCreatures
    \/ UpdateReturn
    \/ SelectOldest
    \/ SelectBiggest
    \/ PrepareForDrawing

\* A board made by new_random and driven by update and the viewer's calls.
Spec == Init /\ [][Next]_vars

\* Board::new with no creatures and any year: the boards get_season is asked on.
InitSeason ==
    \E size \in BoardSizes, y \in 0..MaxProbeYear :
        /\ board_width = size[1]
        /\ board_height = size[2]
        /\ creature_minimum = 0
        /\ soft_bodies_in_positions = [c \in Cells(size[1], size[2]) |-> {}]
        /\ creatures = <<>>
        /\ creature_id_up_to = 0
        /\ spawned_ever = 0
        /\ year = y
        /\ climate_temperature = get_growth_rate(y)
        /\ terrain_up_to_date = TRUE
        /\ selected_creature = None
        /\ body = <<>>
        /\ next_handle = 1
        /\ pc = 0
        /\ time_step = 0
        /\ panic = ""
        /\ season = ""
        /\ elapsed = 0
        /\ trace = EmptyTrace
        /\ GenomeStart
        /\ tile = Water
        /\ tile_call = <<>>

NextSeason == GetSeason

\* get_season on a board of any year.
SpecSeason == InitSeason /\ [][NextSeason]_vars


\* ------------------------------------------------------------ neat::genome
\* The weights get_random_weight draws for the connections of one genome, by
\* the place of the connection: all 1, or alternating -1 and 1.
WeightDraws ==
    {[k \in 1..(AMOUNT_INPUT * AMOUNT_OUTPUT) |-> 1],
     [k \in 1..(AMOUNT_INPUT * AMOUNT_OUTPUT) |-> IF k % 2 = 0 THEN 1 ELSE 0 - 1]}

\* The weights and the ends add_connection is called with.
Weights == {1}

ConnectionEnds == {<<1, 4>>}

\* `COUNTER += 1` that leaves the counter as it was.
incremented_not(n) == n

\* `COUNTER += 1` of get_innovation_number and get_next_node_id.
incremented(n) == n + 1

\* No thread is inside a counter function: the calls below run one at a time.
Sequential == task = <<>>

\* get_innovation_number, called on its own.
GetInnovationNumber ==
    /\ Sequential
    /\ Len(innovation_numbers) < MaxInnovations
    /\ INNOVATION_NUMBER' = incremented(INNOVATION_NUMBER)
    /\ innovation_numbers' = Append(innovation_numbers, INNOVATION_NUMBER')
    /\ UNCHANGED <<NODE_NUMBER, genomes, founders, node_ids, task>>
    /\ UNCHANGED <<board_vars, tile_vars>>

\* get_next_node_id.
GetNextNodeId ==
    /\ Sequential
    /\ Len(node_ids) < MaxNodeIds
    /\ NODE_NUMBER' = incremented(NODE_NUMBER)
    /\ node_ids' = Append(node_ids, NODE_NUMBER')
    /\ UNCHANGED <<INNOVATION_NUMBER, genomes, founders, innovation_numbers, task>>
    /\ UNCHANGED <<board_vars, tile_vars>>

\* ConnectionGene { from, to, weight, enabled, innovation_number }.
ConnectionGene(from, to, weight, innovation_number) ==
    [from |-> from, to |-> to, weight |-> weight, enabled |-> TRUE,
     innovation_number |-> innovation_number]

\* Genome::add_node.
add_node(genome, node_type, id) ==
    [genome EXCEPT !.node_genome = Append(@, [node_type |-> node_type, id |-> id])]

\* Genome::add_connection on the genome at place g: the new connection takes
\* the value get_innovation_number returns.
AddConnection(g, from, to, weight) ==
    /\ Sequential
    /\ Len(innovation_numbers) < MaxInnovations
    /\ INNOVATION_NUMBER' = incremented(INNOVATION_NUMBER)
    /\ innovation_numbers' = Append(innovation_numbers, INNOVATION_NUMBER')
    /\ genomes' = [genomes EXCEPT ![g].connection_genome =
                       Append(@, ConnectionGene(from, to, weight, INNOVATION_NUMBER'))]
    /\ UNCHANGED <<NODE_NUMBER, founders, node_ids, task>>
    /\ UNCHANGED <<board_vars, tile_vars>>

\* `let mut con_counter = 1` replaced by the next global innovation number.
first_con_counter_global == INNOVATION_NUMBER + 1

\* `let mut con_counter = 1`: the innovation number of the first connection of
\* every founder genome.
first_con_counter == 1

\* The inner loop of new_fully_linked with `con_counter += 1` left out.
RECURSIVE link_inputs_same_number(_, _, _, _, _)
link_inputs_same_number(genome, to, i, con_counter, weights) ==
    IF i < AMOUNT_INPUT
    THEN LET from == genome.node_genome[i + 1].id
             linked == [genome EXCEPT !.connection_genome =
                           Append(@, ConnectionGene(from, to,
                                                    weights[Len(@) + 1], con_counter))]
         IN  link_inputs_same_number(linked, to, i + 1, con_counter, weights)
    ELSE <<genome, con_counter>>

\* The inner loop of new_fully_linked from index i on: one connection from the
\* i-th node to `to`, numbered con_counter.  The result is the genome and the
\* counter after the loop.
RECURSIVE link_inputs(_, _, _, _, _)
link_inputs(genome, to, i, con_counter, weights) ==
    IF i < AMOUNT_INPUT
    THEN LET from == genome.node_genome[i + 1].id
             linked == [genome EXCEPT !.connection_genome =
                           Append(@, ConnectionGene(from, to,
                                                    weights[Len(@) + 1], con_counter))]
         IN  link_inputs(linked, to, i + 1, con_counter + 1, weights)
    ELSE <<genome, con_counter>>

\* The first loop of new_fully_linked from index i on: the Sensor nodes.
RECURSIVE add_sensors(_, _, _)
add_sensors(genome, i, node_counter) ==
    IF i < AMOUNT_INPUT
    THEN add_sensors(add_node(genome, "Sensor", node_counter), i + 1, node_counter + 1)
    ELSE <<genome, node_counter>>

\* The second loop of new_fully_linked from index o on: an Output node and its
\* connections from every Sensor node.
RECURSIVE add_outputs(_, _, _, _, _)
add_outputs(genome, o, node_counter, con_counter, weights) ==
    IF o < AMOUNT_OUTPUT
    THEN LET noded == add_node(genome, "Output", node_counter)
             to == noded.node_genome[Len(noded.node_genome)].id
             linked == link_inputs(noded, to, 0, con_counter, weights)
         IN  add_outputs(linked[1], o + 1, node_counter + 1, linked[2], weights)
    ELSE genome

\* Genome::new_fully_linked, with the weights get_random_weight draws.
new_fully_linked(weights) ==
    LET empty == [node_genome |-> <<>>, connection_genome |-> <<>>]
        sensed == add_sensors(empty, 0, 1)
    IN  add_outputs(sensed[1], 0, sensed[2], first_con_counter, weights)

\* A call of Genome::new_fully_linked: the genome is returned to the caller,
\* the statics are not touched.
NewFullyLinked ==
    /\ Sequential
    /\ Len(genomes) < MaxGenomes
    /\ \E weights \in WeightDraws :
          LET genome == new_fully_linked(weights)
          IN  /\ genomes' = Append(genomes, genome)
              /\ founders' = Append(founders,
                                    [genome |-> genome,
                                     INNOVATION_NUMBER |-> INNOVATION_NUMBER,
                                     NODE_NUMBER |-> NODE_NUMBER])
    /\ UNCHANGED <<INNOVATION_NUMBER, NODE_NUMBER, innovation_numbers, node_ids, task>>
    /\ UNCHANGED <<board_vars, tile_vars>>

\* Board::new with no creatures: the board beside which the genomes are made.
BoardStart ==
    \E size \in BoardSizes :
        /\ board_width = size[1]
        /\ board_height = size[2]
        /\ creature_minimum = 0
        /\ soft_bodies_in_positions = [c \in Cells(size[1], size[2]) |-> {}]
        /\ creatures = <<>>
        /\ creature_id_up_to = 0
        /\ spawned_ever = 0
        /\ year = 0
        /\ climate_temperature = get_growth_rate(0)
        /\ terrain_up_to_date = TRUE
        /\ selected_creature = None
        /\ body = <<>>
        /\ next_handle = 1
        /\ pc = 0
        /\ time_step = 0
        /\ panic = ""
        /\ season = ""
        /\ elapsed = 0
        /\ trace = EmptyTrace

InitGenome == BoardStart /\ GenomeStart /\ tile = Water /\ tile_call = <<>>

NextGenome ==
    \/ GetInnovationNumber
    \/ GetNextNodeId
    \/ \E g \in 1..Len(genomes), ends \in ConnectionEnds, weight \in Weights :
          AddConnection(g, ends[1], ends[2], weight)
    \/ NewFullyLinked

\* The genomes and the counters of one thread.
SpecGenome == InitGenome /\ [][NextGenome]_vars

\* ------------------------------------------- neat::genome from two threads
\* The statics are `static mut` and the functions touch them in an `unsafe`
\* block with no lock and no atomic: `COUNTER += 1; return COUNTER` of a thread
\* is a load, a store of the loaded value plus one, and the return of either
\* the value kept in the register or the static read again.
CounterFunctions == {"get_innovation_number", "get_next_node_id"}

Threads == {1, 2}

\* The static the function f works on.
StaticOf(f) == IF f = "get_innovation_number" THEN INNOVATION_NUMBER ELSE NODE_NUMBER

\* The values handed out by k earlier calls on a static that started at base.
EarlierValues(base, k) == [i \in 1..k |-> base + i]

\* Two threads, each about to enter a counter function, after some calls
\* have been made from one thread.
InitRace ==
    /\ BoardStart
    /\ tile = Water
    /\ tile_call = <<>>
    /\ genomes = <<>>
    /\ founders = <<>>
    /\ \E ki \in 0..MaxEarlier, kn \in 0..MaxEarlier :
          /\ innovation_numbers = EarlierValues(AMOUNT_INPUT * AMOUNT_OUTPUT, ki)
          /\ node_ids = EarlierValues(AMOUNT_INPUT + AMOUNT_OUTPUT, kn)
          /\ INNOVATION_NUMBER = AMOUNT_INPUT * AMOUNT_OUTPUT + ki
          /\ NODE_NUMBER = AMOUNT_INPUT + AMOUNT_OUTPUT + kn
    /\ \E fs \in [Threads -> CounterFunctions] :
          task = [t \in Threads |->
                     [function |-> fs[t], pc |-> "load", start |-> StaticOf(fs[t]),
                      register |-> 0, returned |-> 0]]

\* The thread t reads the static into a register.
Load(t) ==
    /\ task[t].pc = "load"
    /\ task' = [task EXCEPT ![t].register = StaticOf(task[t].function),
                            ![t].pc = "store"]
    /\ UNCHANGED <<INNOVATION_NUMBER, NODE_NUMBER, genomes, founders,
                   innovation_numbers, node_ids>>
    /\ UNCHANGED <<board_vars, tile_vars>>

\* The thread t writes the register plus one back to the static.
Store(t) ==
    /\ task[t].pc = "store"
    /\ task' = [task EXCEPT ![t].pc = "return"]
    /\ IF task[t].function = "get_innovation_number"
       THEN /\ INNOVATION_NUMBER' = incremented(task[t].register)
            /\ UNCHANGED NODE_NUMBER
       ELSE /\ NODE_NUMBER' = incremented(task[t].register)
            /\ UNCHANGED INNOVATION_NUMBER
    /\ UNCHANGED <<genomes, founders, innovation_numbers, node_ids>>
    /\ UNCHANGED <<board_vars, tile_vars>>

\* The thread t returns: the value it computed, or the static as it is now.
Return(t) ==
    /\ task[t].pc = "return"
    /\ \E value \in {incremented(task[t].register), StaticOf(task[t].function)} :
          /\ task' = [task EXCEPT ![t].returned = value, ![t].pc = "done"]
          /\ IF task[t].function = "get_innovation_number"
             THEN /\ innovation_numbers' = Append(innovation_numbers, value)
                  /\ UNCHANGED node_ids
             ELSE /\ node_ids' = Append(node_ids, value)
                  /\ UNCHANGED innovation_numbers
    /\ UNCHANGED <<INNOVATION_NUMBER, NODE_NUMBER, genomes, founders>>
    /\ UNCHANGED <<board_vars, tile_vars>>

NextRace ==
    \/ \E t \in Threads : Load(t)
    \/ \E t \in Threads : Store(t)
    \/ \E t \in Threads : Return(t)

\* Two threads in the counter functions at once.
SpecRace == InitRace /\ [][NextRace]_vars

\* ------------------------------------------------------------ terrain::tile
\* Food levels, fertilities and amounts of food (f64 in the code) are kept in
\* units of 1/FoodScale, times in units of 0.00001 year, and the values of
\* exp in units of 1/ExpScale.
\*
\* The fertilities Tile::new is given: negative, 0, between 0 and 1, 1, above 1.
Fertilities == {0 - 1, 0, 1, FoodScale, FoodScale + 1}

FoodTypes == {0, 1}

\* The amounts add_food_or_nothing and remove_food are given.
Amounts == {0 - 2 * FoodScale, 0 - 1, 0, 1, 2 * FoodScale}

\* The times update is given, and the growth the climate reports over the
\* range since the last update.
TileTimes == {0, 1, 2, 4}

Growths == {0 - 1, 0, 1}

\* constants::MAX_GROWTH_LEVEL and constants::FOOD_GROWTH_RATE.
MAX_GROWTH_LEVEL == 3 * FoodScale

FOOD_GROWTH_RATE == 1

\* 0.00001 in `time - self.last_update_time > 0.00001`.
UPDATE_EPSILON == 1

\* f64::max(a, b).
max(a, b) == IF a > b THEN a ELSE b

\* 0f64.max(x) that lets a negative level through.
clamped_not(x) == x

\* 0f64.max(x) of LandTile::remove_food and LandTile::add_food.
clamped(x) == max(0, x)

\* f64::exp(x), for the x <= 0 the tile passes: 1 at 0 and any value from 0
\* (underflow) to 1 (rounding) below 0.
exp(x) == IF x = 0 THEN {ExpScale} ELSE 0..ExpScale

\* The product of a level and a value of exp, rounded to the grid.
times_exp(level, e) == (level * e) \div ExpScale

\* LandTile::new.
LandTile_new(fertility, food_type) ==
    [fertility |-> fertility, food_level |-> fertility, food_type |-> food_type,
     last_update_time |-> 0]

\* Tile::new without `.max(0.0)` on the fertility of a Land tile.
Tile_new_unclamped(fertility, food_type) ==
    IF fertility > FoodScale
    THEN Water
    ELSE Land(LandTile_new(fertility, food_type))

\* Tile::new.
Tile_new(fertility, food_type) ==
    IF fertility > FoodScale
    THEN Water
    ELSE Land(LandTile_new(max(fertility, 0), food_type))

\* Tile::get_food_level.
get_food_level(t) == IF t.variant = "Water" THEN 0 ELSE t.food_level

\* LandTile::remove_food.
LandTile_remove_food(t, food_to_remove) ==
    [t EXCEPT !.food_level = clamped(t.food_level - food_to_remove)]

\* LandTile::add_food.
LandTile_add_food(t, food_to_add) ==
    [t EXCEPT !.food_level = clamped(t.food_level + food_to_add)]

\* `MAX_GROWTH_LEVEL - new_dist_to_max` without `- self.food_level`.
food_to_add_from_zero(food_level, new_dist_to_max) == MAX_GROWTH_LEVEL - new_dist_to_max

\* `let food_to_add = MAX_GROWTH_LEVEL - new_dist_to_max - self.food_level`.
food_to_add_of(food_level, new_dist_to_max) ==
    MAX_GROWTH_LEVEL - new_dist_to_max - food_level

\* `time - self.last_update_time > 0.00001` taken as always true.
update_due_always(time, last_update_time) == TRUE

\* `time - self.last_update_time > 0.00001`: the guard of LandTile::update.
update_due(time, last_update_time) == time - last_update_time > UPDATE_EPSILON

\* LandTile::update: every tile it can end with, over the values of exp.
LandTile_update(t, time, growth_change) ==
    IF update_due(time, t.last_update_time)
    THEN LET fed ==
                 IF growth_change <= 0
                 THEN {LandTile_remove_food(t, t.food_level - times_exp(t.food_level, e)) :
                          e \in exp(growth_change * FOOD_GROWTH_RATE)}
                 ELSE IF t.food_level < MAX_GROWTH_LEVEL
                 THEN {LandTile_add_food(t,
                          food_to_add_of(t.food_level,
                                         times_exp(MAX_GROWTH_LEVEL - t.food_level, e))) :
                          e \in exp((0 - growth_change) * t.fertility * FOOD_GROWTH_RATE)}
                 ELSE {t}
         IN  {[u EXCEPT !.last_update_time = time] : u \in fed}
    ELSE {t}

\* `if food_to_remove > 0.0` that never holds.
water_remove_aborts_never(food_to_remove) == FALSE

\* `if food_to_remove > 0.0` of the Water arm of Tile::remove_food.
water_remove_aborts(food_to_remove) == food_to_remove > 0

\* Tile::update.
TileUpdate(time, growth_change) ==
    /\ panic = ""
    /\ IF tile.variant = "Water"
       THEN tile' = tile
       ELSE tile' \in LandTile_update(tile, time, growth_change)
    /\ tile_call' = <<"update", time, growth_change>>
    /\ UNCHANGED <<board_vars, genome_vars>>

\* Tile::add_food_or_nothing.
TileAddFoodOrNothing(food_to_add) ==
    /\ panic = ""
    /\ get_food_level(tile) + food_to_add <= MaxFood
    /\ IF tile.variant = "Water"
       THEN tile' = tile
       ELSE tile' = LandTile_add_food(tile, food_to_add)
    /\ tile_call' = <<"add_food_or_nothing", food_to_add>>
    /\ UNCHANGED <<board_vars, genome_vars>>

\* Tile::remove_food.
TileRemoveFood(food_to_remove) ==
    /\ panic = ""
    /\ get_food_level(tile) - food_to_remove <= MaxFood
    /\ IF tile.variant = "Water"
       THEN /\ tile' = tile
            /\ panic' = IF water_remove_aborts(food_to_remove)
                        THEN "remove_food on a water tile"
                        ELSE panic
       ELSE /\ tile' = LandTile_remove_food(tile, food_to_remove)
            /\ UNCHANGED panic
    /\ tile_call' = <<"remove_food", food_to_remove>>
    /\ UNCHANGED <<board_fields, genome_vars>>

\* A tile made by Tile::new.
InitTile ==
    /\ BoardStart
    /\ GenomeStart
    /\ \E fertility \in Fertilities, food_type \in FoodTypes :
          /\ tile = Tile_new(fertility, food_type)
          /\ tile_call = <<"new", fertility, food_type>>

NextTile ==
    \/ \E time \in TileTimes, growth_change \in Growths : TileUpdate(time, growth_change)
    \/ \E food_to_add \in Amounts : TileAddFoodOrNothing(food_to_add)
    \/ \E food_to_remove \in Amounts : TileRemoveFood(food_to_remove)

\* One tile under update, add_food_or_nothing and remove_food.
SpecTile == InitTile /\ [][NextTile]_vars

\* ------------------------------------------------- the spatial index alone
\* Board::new_random, keeping the calls its refill made.
InitSbip ==
    \E size \in BoardSizes, minimum \in 0..MaxMinimum :
      \E w \in maintain_creature_minimum(EmptyWorld(size), minimum, size, 0) :
        /\ board_width = size[1]
        /\ board_height = size[2]
        /\ creature_minimum = minimum
        /\ soft_bodies_in_positions = w.sbip
        /\ creatures = w.creatures
        /\ creature_id_up_to = w.creature_id_up_to
        /\ spawned_ever = NewRandomCalls(w.calls, 0)
        /\ year = 0
        /\ climate_temperature = get_growth_rate(0)
        /\ terrain_up_to_date = TRUE
        /\ selected_creature = w.selected
        /\ body = w.body
        /\ next_handle = w.next_handle
        /\ pc = 0
        /\ time_step = 0
        /\ panic = ""
        /\ season = ""
        /\ elapsed = 0
        /\ trace = [EmptyTrace EXCEPT !.calls = w.calls]
        /\ GenomeStart
        /\ tile = Water
        /\ tile_call = <<>>

\* The calls made on the index since new_random returned.
CallsSinceNew == Len(trace.calls) - 3 * Len(creatures)

\* The first half of apply_motions: the position of the creature h changes,
\* the index is not yet told.
Motion(h, pos) ==
    /\ CallsSinceNew < MaxSbipCalls
    /\ body' = [body EXCEPT ![h].position = pos]
    /\ trace' = [trace EXCEPT !.calls = Append(@, <<"motion", h>>)]
    /\ UNCHANGED <<board_width, board_height, creature_minimum,
                   soft_bodies_in_positions, creatures, creature_id_up_to, spawned_ever, year,
                   climate_temperature, terrain_up_to_date, selected_creature,
                   next_handle, pc, time_step, panic, season, elapsed>>
    /\ UNCHANGED <<genome_vars, tile_vars>>

\* A call of set_sbip on the creature h.
SetSbip(h) ==
    /\ CallsSinceNew < MaxSbipCalls
    /\ LET w == set_sbip(World, h)
       IN  /\ soft_bodies_in_positions' = w.sbip
           /\ body' = w.body
           /\ trace' = [trace EXCEPT !.calls = w.calls]
    /\ UNCHANGED <<board_width, board_height, creature_minimum, creatures,
                   creature_id_up_to, spawned_ever, year, climate_temperature, terrain_up_to_date,
                   selected_creature, next_handle, pc, time_step, panic, season,
                   elapsed>>
    /\ UNCHANGED <<genome_vars, tile_vars>>

NextSbip ==
    \/ \E h \in Range(creatures), pos \in PrecisePositions(board_width, board_height) :
          Motion(h, pos)
    \/ \E h \in Range(creatures) : SetSbip(h)

\* The creatures of new_random, moved and indexed call by call.
SpecSbip == InitSbip /\ [][NextSbip]_vars

\* A board restored at any year with no creatures, driven like any other.
SpecClock == InitSeason /\ [][Next]_vars


\* ------------------------------------------------------------------ claims
\* update has run all its phases and is about to return.
UpdateDone == pc = Len(UpdatePhases) + 1

\* No call is running, or update is about to return: a quiescent point.
Quiescent == pc = 0 \/ UpdateDone

\* The creatures the running update removed as dead.
Culled == Range(trace.before_cull) \ Range(trace.survivors)

\* The creatures the running update applied the operation op to.
CalledOn(op) == {c[2] : c \in {x \in Range(trace.calls) : x[1] = op}}

\* C1: at every quiescent point (after new_random, after each update) the
\* population is at least creature_minimum; and when the survivors and the
\* offspring of the tick already number creature_minimum or more, the
\* population after the update is exactly the survivors plus the offspring.
C1_PopulationFloor ==
    /\ Quiescent => Len(creatures) >= creature_minimum
    /\ (UpdateDone /\ Len(trace.survivors) + Len(trace.babies) >= creature_minimum)
          => Len(creatures) = Len(trace.survivors) + Len(trace.babies)

\* A tick in which creatures died and the refill made up for them.
C1_Witness ==
    /\ UpdateDone
    /\ Culled # {}
    /\ trace.spawned # <<>>
    /\ Len(creatures) = creature_minimum

\* The rank of a per-creature call in the order of the phases of update; 0 for
\* set_sbip, which three of the phases make.
CallRank(op) ==
    CASE op \in {"collide", "record_energy", "metabolize"} -> 1
      [] op = "run_with" -> 2
      [] op = "use_output" -> 3
      [] op = "return_to_earth" -> 4
      [] op = "try_reproduce" -> 5
      [] op = "new_random" -> 6
      [] op = "apply_motions" -> 7
      [] OTHER -> 0

\* C2: the phases of update run once each in the order clock, update_creatures,
\* remove_dead_creatures, creatures_reproduce, maintain_creature_minimum,
\* move_creatures, and no per-creature call of a phase comes after a call of a
\* later phase.
C2_PhaseOrder ==
    LET order == <<"clock", "update_creatures", "remove_dead_creatures",
                   "creatures_reproduce", "maintain_creature_minimum",
                   "move_creatures">>
    IN  /\ Len(trace.log) <= Len(order)
        /\ trace.log = SubSeq(order, 1, Len(trace.log))
        /\ pc # 0 => Len(trace.log) = pc - 1
        /\ UpdateDone => trace.log = order
        /\ LET ranks == SelectSeq([k \in 1..Len(trace.calls) |->
                                       CallRank(trace.calls[k][1])],
                                  LAMBDA r : r > 0)
           IN  \A k \in 1..(Len(ranks) - 1) : ranks[k] <= ranks[k + 1]

\* A tick in which every phase had a creature to act on.
C2_Witness ==
    /\ UpdateDone
    /\ CalledOn("use_output") # {}
    /\ CalledOn("return_to_earth") # {}
    /\ CalledOn("try_reproduce") # {}
    /\ CalledOn("new_random") # {}
    /\ CalledOn("apply_motions") # {}

\* The tiles whose bucket holds the handle h.
CellsHolding(h) == {c \in DOMAIN soft_bodies_in_positions : h \in soft_bodies_in_positions[c]}

\* C3: at every quiescent point each creature of the population is in exactly
\* one bucket of the spatial index, the one of its current tile, and no bucket
\* holds a handle that is not in the population.
C3_SingleMembership ==
    Quiescent =>
        /\ \A h \in Range(creatures) :
              CellsHolding(h) = {BoardCoordinateFrom(body[h].position)}
        /\ \A c \in DOMAIN soft_bodies_in_positions :
              soft_bodies_in_positions[c] \subseteq Range(creatures)

\* A tick in which a creature died and the one survivor, a creature made by the
\* refill, had a baby at its own position; the motion has carried the two to
\* different tiles.
C3_Witness ==
    /\ UpdateDone
    /\ Culled # {}
    /\ Len(trace.survivors) = 1
    /\ Len(trace.babies) = 1
    /\ body[trace.survivors[1]].birth_time = 0
    /\ BoardCoordinateFrom(body[trace.survivors[1]].position)
          # BoardCoordinateFrom(body[trace.babies[1]].position)

\* C4: try_reproduce is called only on creatures that were in the population
\* after this tick's remove_dead_creatures, never on one that was culled; and
\* every creature added in the tick, born or made by the refill, has
\* apply_motions applied to it in the same tick.
C4_SurvivorsReproduceAddedMove ==
    /\ CalledOn("try_reproduce") \subseteq Range(trace.survivors)
    /\ CalledOn("try_reproduce") \cap trace.doomed = {}
    /\ UpdateDone =>
          \A h \in Range(trace.babies) \cup Range(trace.spawned) :
              Count(trace.calls, <<"apply_motions", h>>) = 1

\* A tick in which one creature was culled and another had a baby.
C4_Witness ==
    /\ UpdateDone
    /\ Culled # {}
    /\ trace.babies # <<>>
    /\ Range(trace.babies) \subseteq CalledOn("apply_motions")

\* The remove_dead_creatures phase of the running update has just ended.
JustCulled ==
    /\ trace.log # <<>>
    /\ trace.log[Len(trace.log)] = "remove_dead_creatures"

\* C5: when remove_dead_creatures returns no creature of the population
\* satisfies should_die; the creatures removed are exactly those that satisfied
\* it, each with exactly one return_to_earth; and the survivors keep their order.
C5_RemoveDeadExact ==
    /\ JustCulled => \A h \in Range(creatures) : ~should_die(body[h])
    /\ JustCulled => creatures = trace.survivors
    /\ trace.survivors = SelectSeq(trace.before_cull, LAMBDA h : h \notin trace.doomed)
    /\ \A h \in trace.doomed : Count(trace.calls, <<"return_to_earth", h>>) = 1
    /\ CalledOn("return_to_earth") \subseteq trace.doomed

\* A cull of a population whose last two creatures are dead and whose first
\* one survives.
C5_Witness ==
    /\ JustCulled
    /\ Len(trace.before_cull) = 3
    /\ trace.before_cull[1] \notin trace.doomed
    /\ trace.before_cull[2] \in trace.doomed
    /\ trace.before_cull[3] \in trace.doomed


\* C6: on an empty population select_oldest and select_biggest do nothing: the
\* selection stays as it was and the process does not abort.
C6_SelectOnEmptyIsNoOp ==
    [][(creatures = <<>> /\ (SelectOldest \/ SelectBiggest))
          => (panic' = "" /\ selected_creature' = selected_creature)]_vars

\* The 1-based index of the handle h in the population.
IndexOf(h) == CHOOSE k \in 1..Len(creatures) : creatures[k] = h

\* The handle h is the first of the population among those no creature beats,
\* where Beats(a, b) says that the body a ranks strictly ahead of the body b.
FirstUnbeaten(h, Beats(_, _)) ==
    /\ h \in Range(creatures)
    /\ \A k \in 1..Len(creatures) : ~Beats(body[creatures[k]], body[h])
    /\ \A k \in 1..Len(creatures) :
          k < IndexOf(h) => Beats(body[h], body[creatures[k]])

\* C7: on a non-empty population select_oldest selects the first creature of
\* minimal birth_time and select_biggest the first creature of maximal energy,
\* and neither changes the population, its order, the creatures, the year or
\* the spatial index.
C7_SelectExtremum ==
    [][/\ (creatures # <<>> /\ SelectOldest) =>
             /\ selected_creature' # None
             /\ FirstUnbeaten(selected_creature'[1],
                              LAMBDA a, b : a.birth_time < b.birth_time)
       /\ (creatures # <<>> /\ SelectBiggest) =>
             /\ selected_creature' # None
             /\ FirstUnbeaten(selected_creature'[1],
                              LAMBDA a, b : a.energy > b.energy)
       /\ (SelectOldest \/ SelectBiggest) =>
             UNCHANGED <<creatures, body, year, soft_bodies_in_positions,
                         creature_id_up_to>>]_vars

\* The first of two creatures of the same, minimal birth_time is selected while
\* the second one has more energy.
C7_Witness ==
    /\ pc = 0
    /\ Len(creatures) >= 2
    /\ selected_creature = Some(creatures[1])
    /\ \A k \in 1..Len(creatures) :
          body[creatures[k]].birth_time >= body[creatures[1]].birth_time
    /\ body[creatures[2]].birth_time = body[creatures[1]].birth_time
    /\ body[creatures[2]].energy > body[creatures[1]].energy

\* The step is the remove_dead_creatures phase of update.
CullStep == trace'.log = Append(trace.log, "remove_dead_creatures")

\* C8: the simulation changes the selection only by clearing it, and only in
\* the cull that removes the selected creature; a cull that removes other
\* creatures leaves it as it was; so at every quiescent point a selection
\* refers to a creature of the population.
C8_SelectionOnlyCleared ==
    /\ [](Quiescent /\ selected_creature # None
             => selected_creature[1] \in Range(creatures))
    /\ [][/\ ((pc # 0 \/ pc' # 0) /\ selected_creature' # selected_creature) =>
                /\ CullStep
                /\ selected_creature' = None
                /\ selected_creature[1] \in trace'.doomed
          /\ (CullStep /\ selected_creature # None
                /\ selected_creature[1] \notin trace'.doomed)
                => selected_creature' = selected_creature
          /\ (CullStep /\ selected_creature # None
                /\ selected_creature[1] \in trace'.doomed)
                => selected_creature' = None]_vars

\* The creature that was selected when update was called has been culled, with
\* another creature surviving, and the selection is cleared.
C8_Witness ==
    /\ trace.sel_before # None
    /\ trace.sel_before[1] \in Culled
    /\ trace.survivors # <<>>
    /\ selected_creature = None

\* C9: the index of get_season is in 0..3 for every year >= 0, the four
\* quarters of the year map to Winter, Spring, Summer, Autumn in this order,
\* the season of year + 1 is the season of year, and get_season returns the
\* label of the index without aborting.
C9_Season ==
    LET f == year % YearUnit
        i == season_index(year)
        labels == <<"Winter", "Spring", "Summer", "Autumn">>
    IN  /\ i \in 0..3
        /\ (4 * f < YearUnit) => i = 0
        /\ (YearUnit <= 4 * f /\ 4 * f < 2 * YearUnit) => i = 1
        /\ (2 * YearUnit <= 4 * f /\ 4 * f < 3 * YearUnit) => i = 2
        /\ (3 * YearUnit <= 4 * f) => i = 3
        /\ season_index(year + YearUnit) = i
        /\ panic = ""
        /\ season # "" => season = labels[i + 1]

\* get_season has returned Autumn in the last quarter of a later year.
C9_Witness ==
    /\ year >= YearUnit
    /\ 4 * (year % YearUnit) >= 3 * YearUnit
    /\ season = "Autumn"

\* The clock phase of the running update has not run yet.
ClockPending == pc # 0 /\ trace.log = <<>>

\* C10: year is 0 after new_random and is at every moment the sum of the time
\* steps of the updates that have advanced the clock; only the clock phase of
\* update changes year, by exactly the time step, which makes it grow when the
\* time step is positive; selection and prepare_for_drawing leave it alone.
C10_Clock ==
    /\ [](year = elapsed - (IF ClockPending THEN time_step ELSE 0))
    /\ [][/\ year' # year =>
                /\ trace'.log = Append(trace.log, "clock")
                /\ year' = year + time_step
                /\ time_step > 0 => year' > year
          /\ (SelectOldest \/ SelectBiggest \/ PrepareForDrawing) => year' = year]_vars

\* Two updates with the same time step have been completed, with a selection
\* made in between.
C10_Witness ==
    /\ pc = 0
    /\ year = 60
    /\ elapsed = 60
    /\ selected_creature # None

\* --------------------------------------------------- claims on neat::genome
\* Each entry of s is smaller than the one after it.
StrictlyIncreasing(s) == \A k \in 1..(Len(s) - 1) : s[k] < s[k + 1]

\* The connections add_connection has pushed: <<genome place, connection place>>.
AddedConnections ==
    {<<g, k>> \in (1..Len(genomes)) \X (1..(AMOUNT_INPUT * AMOUNT_OUTPUT + MaxInnovations)) :
        /\ k > AMOUNT_INPUT * AMOUNT_OUTPUT
        /\ k <= Len(genomes[g].connection_genome)}

InnovationOf(c) == genomes[c[1]].connection_genome[c[2]].innovation_number

\* C11: in one thread the values get_innovation_number returns, on its own or
\* through add_connection on any genome, are strictly increasing in the order
\* of the calls, so N calls give N distinct numbers and no two added
\* connections share one; the same holds for get_next_node_id; and no step
\* decreases INNOVATION_NUMBER or NODE_NUMBER.
C11_CountersIncrease ==
    /\ [](/\ StrictlyIncreasing(innovation_numbers)
          /\ StrictlyIncreasing(node_ids)
          /\ \A c \in AddedConnections : InnovationOf(c) \in Range(innovation_numbers)
          /\ \A c, d \in AddedConnections : c # d => InnovationOf(c) # InnovationOf(d))
    /\ [][/\ INNOVATION_NUMBER' >= INNOVATION_NUMBER
          /\ NODE_NUMBER' >= NODE_NUMBER]_vars

\* Three innovation numbers were handed out, to connections of two genomes and
\* to a direct caller, and two node ids.
C11_Witness ==
    /\ Len(innovation_numbers) = 3
    /\ Len(node_ids) = 2
    /\ \E c, d \in AddedConnections : c[1] # d[1]

\* The nodes of a genome as <<id, type>> and its connections as
\* <<from, to, innovation_number>>.
NodesOf(genome) == {<<n.id, n.node_type>> : n \in Range(genome.node_genome)}

TriplesOf(genome) ==
    {<<c.from, c.to, c.innovation_number>> : c \in Range(genome.connection_genome)}

\* C13: any two genomes returned by new_fully_linked have the same node ids
\* with the same types and the same <<from, to, innovation_number>> triples,
\* whatever was allocated from the global counters before or between the two
\* calls; only the weights may differ.
C13_FoundersAlign ==
    \A i, j \in 1..Len(founders) :
        /\ NodesOf(founders[i].genome) = NodesOf(founders[j].genome)
        /\ TriplesOf(founders[i].genome) = TriplesOf(founders[j].genome)

\* Two founders with different weights, the second built after innovation
\* numbers and node ids had been handed out.
C13_Witness ==
    /\ Len(founders) = 2
    /\ founders[1].genome # founders[2].genome
    /\ founders[2].INNOVATION_NUMBER > founders[1].INNOVATION_NUMBER
    /\ founders[2].NODE_NUMBER > founders[1].NODE_NUMBER

\* The ids of the nodes of the given type.
IdsOfType(genome, node_type) ==
    {n.id : n \in {x \in Range(genome.node_genome) : x.node_type = node_type}}

\* C14: a genome returned by new_fully_linked has AMOUNT_INPUT Sensor nodes and
\* AMOUNT_OUTPUT Output nodes with pairwise distinct ids, and
\* AMOUNT_INPUT * AMOUNT_OUTPUT connections: exactly one for each pair of a
\* Sensor and an Output node of that genome, all enabled, with pairwise
\* distinct innovation numbers.
C14_FullyLinked ==
    \A f \in 1..Len(founders) :
        LET genome == founders[f].genome
            nodes == genome.node_genome
            cons == genome.connection_genome
            sensors == IdsOfType(genome, "Sensor")
            outputs == IdsOfType(genome, "Output")
        IN  /\ Len(nodes) = AMOUNT_INPUT + AMOUNT_OUTPUT
            /\ Cardinality(sensors) = AMOUNT_INPUT
            /\ Cardinality(outputs) = AMOUNT_OUTPUT
            /\ Cardinality({n.id : n \in Range(nodes)}) = Len(nodes)
            /\ Len(cons) = AMOUNT_INPUT * AMOUNT_OUTPUT
            /\ {<<c.from, c.to>> : c \in Range(cons)} = sensors \X outputs
            /\ Cardinality({<<c.from, c.to>> : c \in Range(cons)}) = Len(cons)
            /\ \A k \in 1..Len(cons) : cons[k].enabled
            /\ Cardinality({c.innovation_number : c \in Range(cons)}) = Len(cons)

\* A founder genome was returned.
C14_Witness ==
    /\ Len(founders) >= 1
    /\ Len(founders[1].genome.connection_genome) > 0
    /\ genomes # <<>>

\* C12: when two threads call the same counter function at once, under every
\* interleaving of their steps the two calls return different values and the
\* static ends two higher than it started.
C12_AtomicIncrement ==
    (/\ task # <<>>
     /\ \A t \in Threads : task[t].pc = "done"
     /\ task[1].function = task[2].function)
    => /\ task[1].returned # task[2].returned
       /\ StaticOf(task[1].function) = task[1].start + 2

\* --------------------------------------------------- claims on terrain::tile
IsLand == tile.variant = "Land"

IsWater == tile.variant = "Water"

C16_FoodNotNegative == IsLand => tile.food_level >= 0

\* A Land tile that started with food and was emptied.
C16_Witness == IsLand /\ tile.fertility > 0 /\ tile.food_level = 0

\* C17: the food level of a Land tile is at most MAX_GROWTH_LEVEL in every
\* reachable state.
C17_FoodBelowMaximum == IsLand => tile.food_level <= MAX_GROWTH_LEVEL

\* C17 as amended: a tile made by Tile::new has at most MAX_GROWTH_LEVEL, and
\* update never takes a level that is at most MAX_GROWTH_LEVEL above it; only
\* add_food_or_nothing with a positive amount and remove_food with a negative
\* amount do, having no ceiling.
C17_OnlyDepositsExceedMaximum ==
    /\ (IsLand => tile.food_level <= MAX_GROWTH_LEVEL)
    /\ [][(/\ IsLand
           /\ tile.food_level <= MAX_GROWTH_LEVEL
           /\ tile'.food_level > MAX_GROWTH_LEVEL)
          => \/ tile_call'[1] = "add_food_or_nothing" /\ tile_call'[2] > 0
             \/ tile_call'[1] = "remove_food" /\ tile_call'[2] < 0]_vars

\* A tile that update has grown to the maximum and a deposit has taken above it.
C17_Witness ==
    /\ IsLand
    /\ tile.last_update_time > 0
    /\ tile.food_level > MAX_GROWTH_LEVEL

\* ------------------------------------------- claims on the spatial index
\* The calls of the log that are about the creature h.
CallsAbout(h) == SelectSeq(trace.calls, LAMBDA c : c[2] = h)

\* The position of h has not changed since h was made or last indexed.
Settled(h) ==
    LET about == CallsAbout(h)
    IN  about # <<>> /\ about[Len(about)][1] # "motion"

\* The tiles whose bucket in the index sbip holds h.
BucketsHolding(sbip, h) == {c \in DOMAIN sbip : h \in sbip[c]}

RefillStep == trace'.log = Append(trace.log, "maintain_creature_minimum")

\* C19: maintain_creature_minimum appends max(0, creature_minimum - population
\* size) creatures made by new_random with birth time year behind the existing
\* ones, which keep their order and their bodies; when the population is
\* already at the minimum it leaves the population, creature_id_up_to and the
\* index unchanged; and new_random ends with exactly creature_minimum creatures.
C19_RefillOnlyAppends ==
    /\ []((pc = 0 /\ elapsed = 0) =>
            /\ Len(creatures) = creature_minimum
            /\ creature_id_up_to = creature_minimum
            /\ \A h \in Range(creatures) : body[h].birth_time = 0)
    /\ [][RefillStep =>
            LET n == Len(creatures)
                k == max(0, creature_minimum - n)
                added == {creatures'[i] : i \in (n + 1)..(n + k)}
            IN  /\ Len(creatures') = n + k
                /\ SubSeq(creatures', 1, n) = creatures
                /\ Cardinality(added) = k
                /\ \A h \in added :
                      /\ h \notin DOMAIN body
                      /\ body'[h].birth_time = year
                      /\ <<"new_random", h>> \in Range(trace'.calls)
                /\ \A h \in DOMAIN body : body'[h] = body[h]
                /\ creature_id_up_to' = creature_id_up_to + k
                /\ k = 0 => /\ creatures' = creatures
                            /\ soft_bodies_in_positions' = soft_bodies_in_positions
                            /\ body' = body]_vars

\* An update whose refill put a new creature behind one that was already there.
C19_Witness ==
    /\ UpdateDone
    /\ Len(trace.spawned) >= 1
    /\ Len(trace.survivors) + Len(trace.babies) >= 1
    /\ creatures = trace.survivors \o trace.babies \o trace.spawned

\* ------------------------------------------- claims on the terrain refresh
\* The step in which update advances the clock and the climate and decides
\* on the refresh.
ClockStep == trace'.log = Append(trace.log, "clock")

\* C20: update refreshes the whole terrain exactly when the change of the
\* temperature into the new time window times the change out of it is
\* strictly negative, not when the two have the same sign or one is zero;
\* the refresh is made for the new year, after the clock and the climate have
\* been advanced, and no later phase of the update touches it.
C20_RefreshIffTrendFlips ==
    [][/\ ClockStep =>
            LET into_frame == climate_temperature' - get_growth_rate(year' - time_step)
                out_of_frame == get_growth_rate(year' + time_step) - climate_temperature'
            IN  /\ year' = year + time_step
                /\ climate_temperature' = get_growth_rate(year')
                /\ trace'.refreshed <=> into_frame * out_of_frame < 0
                /\ terrain_up_to_date' <=> trace'.refreshed
       /\ (pc > 1 /\ pc' # 0) =>
            /\ trace'.refreshed = trace.refreshed
            /\ terrain_up_to_date' = terrain_up_to_date
            /\ year' = year]_vars

\* An update of a populated or empty board that refreshed the terrain and
\* has gone on to its later phases.
C20_Witness ==
    /\ UpdateDone
    /\ trace.refreshed
    /\ terrain_up_to_date
    /\ year > 0

\* ------------------------------------------- claims on LandTile::update
\* C21: update of a Land tile changes nothing unless time - last_update_time
\* > 0.00001; when it is, last_update_time becomes time and food_level moves
\* with the sign of the growth: growth > 0 below MAX_GROWTH_LEVEL gives a
\* level >= the old one and <= MAX_GROWTH_LEVEL, growth > 0 at or above
\* MAX_GROWTH_LEVEL leaves the level, growth <= 0 gives a level <= the old
\* one and >= 0.
C21_UpdateFollowsGrowth ==
    [][(IsLand /\ tile_call'[1] = "update") =>
          LET time == tile_call'[2]
              growth == tile_call'[3]
              old == tile.food_level
              new == tile'.food_level
          IN  IF time - tile.last_update_time > UPDATE_EPSILON
              THEN /\ tile'.last_update_time = time
                   /\ (growth > 0 /\ old < MAX_GROWTH_LEVEL) =>
                         (new >= old /\ new <= MAX_GROWTH_LEVEL)
                   /\ (growth > 0 /\ old >= MAX_GROWTH_LEVEL) => new = old
                   /\ growth <= 0 => (new <= old /\ new >= 0)
              ELSE tile' = tile]_vars

\* An update with positive growth has just raised the tile above the level
\* it was made with, to the maximum or below.
C21_Witness ==
    /\ IsLand
    /\ tile_call[1] = "update"
    /\ tile_call[3] > 0
    /\ tile.last_update_time = tile_call[2]
    /\ tile.food_level > tile.fertility
    /\ tile.food_level <= MAX_GROWTH_LEVEL

\* ------------------------------------------------- claims on Tile::new
\* C22: Tile::new gives Water for a fertility > 1.0 and otherwise Land with
\* fertility max(fertility, 0), so in [0, 1], food_level equal to that
\* fertility, the food_type given and last_update_time 0; and no later call
\* changes the variant, the fertility or the food_type of a tile.
C22_ClassifiedForGood ==
    /\ [](tile_call[1] = "new" =>
            LET fertility == tile_call[2]
                food_type == tile_call[3]
            IN  IF fertility > FoodScale
                THEN IsWater
                ELSE /\ IsLand
                     /\ tile.fertility = max(fertility, 0)
                     /\ tile.food_level = tile.fertility
                     /\ tile.food_type = food_type
                     /\ tile.last_update_time = 0)
    /\ [](IsLand => (tile.fertility >= 0 /\ tile.fertility <= FoodScale))
    /\ [][/\ tile'.variant = tile.variant
          /\ IsLand => /\ tile'.fertility = tile.fertility
                       /\ tile'.food_type = tile.food_type]_vars

\* A Land tile of fertility 0 that has since been fed and updated: its level
\* and its time have changed, its fertility has not.
C22_Witness ==
    /\ IsLand
    /\ tile_call[1] # "new"
    /\ tile.fertility = 0
    /\ tile.food_level > 0
    /\ tile.last_update_time > 0

\* --------------------------------------- claims on the founder ranges
\* C23: every genome returned by new_fully_linked has innovation numbers in
\* 1..AMOUNT_INPUT*AMOUNT_OUTPUT and node ids in 1..AMOUNT_INPUT+AMOUNT_OUTPUT
\* only, and its construction leaves INNOVATION_NUMBER and NODE_NUMBER as they
\* were; every value get_innovation_number has returned is above the first
\* range and every value get_next_node_id has returned is above the second,
\* in whatever order constructions and allocations are made.
C23_FounderRangesApart ==
    /\ [](/\ \A f \in 1..Len(founders) :
               /\ \A c \in Range(founders[f].genome.connection_genome) :
                     c.innovation_number \in 1..(AMOUNT_INPUT * AMOUNT_OUTPUT)
               /\ \A n \in Range(founders[f].genome.node_genome) :
                     n.id \in 1..(AMOUNT_INPUT + AMOUNT_OUTPUT)
          /\ \A k \in 1..Len(innovation_numbers) :
                innovation_numbers[k] > AMOUNT_INPUT * AMOUNT_OUTPUT
          /\ \A k \in 1..Len(node_ids) :
                node_ids[k] > AMOUNT_INPUT + AMOUNT_OUTPUT)
    /\ [][founders' # founders =>
            /\ INNOVATION_NUMBER' = INNOVATION_NUMBER
            /\ NODE_NUMBER' = NODE_NUMBER]_vars

\* A founder built between two allocations of innovation numbers, with a node
\* id allocated as well.
C23_Witness ==
    /\ Len(founders) >= 1
    /\ Len(innovation_numbers) >= 2
    /\ Len(node_ids) >= 1
    /\ \E f \in 1..Len(founders) :
          /\ founders[f].INNOVATION_NUMBER >= innovation_numbers[1]
          /\ founders[f].INNOVATION_NUMBER < innovation_numbers[Len(innovation_numbers)]


ReproduceStep == trace'.log = Append(trace.log, "creatures_reproduce")

\* C24: creature_id_up_to never decreases; new_random ends with it equal to the
\* number of creatures it made from 0; maintain_creature_minimum adds one to it
\* for each creature it spawns; creatures_reproduce, which pushes the offspring
\* into the population, and remove_dead_creatures leave it unchanged; so it
\* always equals the number of creatures new_random has made for this board.
C24_IdCountsRandomCreatures ==
    /\ []((pc = 0 /\ elapsed = 0) =>
            /\ creature_id_up_to = Len(creatures)
            /\ next_handle = creature_id_up_to + 1)
    /\ [](creature_id_up_to = spawned_ever)
    /\ [][/\ creature_id_up_to' >= creature_id_up_to
          /\ RefillStep =>
                /\ creature_id_up_to' = creature_id_up_to + Len(trace'.spawned)
                /\ Len(trace'.spawned) =
                      NewRandomCalls(trace'.calls, Len(trace.calls))
          /\ ReproduceStep =>
                /\ creature_id_up_to' = creature_id_up_to
                /\ Len(creatures') = Len(creatures) + Len(trace'.babies)
          /\ CullStep => creature_id_up_to' = creature_id_up_to
          /\ ~RefillStep => creature_id_up_to' = creature_id_up_to]_vars

\* The end of an update that refilled the board, on which offspring has been
\* born as well: more creatures were made than creature_id_up_to counts.
C24_Witness ==
    /\ UpdateDone
    /\ trace.spawned # <<>>
    /\ Culled # {}
    /\ creature_id_up_to > creature_minimum
    /\ next_handle - 1 > creature_id_up_to

====
